---- MODULE Spec2Model ----
(***************************************************************************)
(* SublimeDiffView: the hunk parser (src/parser/porcelain_hunk_diff.py)    *)
(* and the version-control helpers (src/util/vcs.py).                      *)
(*                                                                         *)
(* A text line is a sequence of one-character strings, so that             *)
(* str.startswith is computed on the characters.  A header token           *)
(* (match[0..3]) is a sequence of digit characters; the empty sequence is  *)
(* the absent token.                                                       *)
(***************************************************************************)
EXTENDS Integers, Sequences, FiniteSets, TLC

VARIABLES
    match,            \* header tokens handed to HunkDiff.__init__
    old_line_start, old_hunk_len, new_line_start, new_hunk_len,
    hunk_type,
    hunk_diff_lines,  \* the body lines of the hunk
    old_regions, new_regions,
    \* parse_diff: position and locals of the MOD loop
    pc,               \* "idle" (no call running) or "loop" (inside the for loop)
    idx,              \* index of the next body line of the for loop
    result,           \* how the last finished parse_diff call ended
    calls,            \* number of parse_diff calls started
    old_cur_line, new_cur_line,
    old_add_line, new_add_start, old_del_start, new_del_line,
    in_add, in_del,
    \* sort_chunks: its return value
    sorted, add_chunks, del_chunks,
    \* GitHelper / SVNHelper
    helper, got_changed_files, vcs_calls, first_files, last_files, last_cmds,
    repo_base,        \* git_base / svn_base of the helper
    file_versions,    \* the last get_file_versions call: input, backend output, result
    probe,            \* what the two probes of get_helper meet in cwd
    helper_error,     \* the exception get_helper raised, "none" if none
    \* get_old_regions / get_new_regions
    getter_calls, last_getter

hunkVars ==
    << match, old_line_start, old_hunk_len, new_line_start, new_hunk_len,
       hunk_type, hunk_diff_lines >>

regionVars ==
    << old_regions, new_regions >>

loopVars ==
    << old_cur_line, new_cur_line, old_add_line, new_add_start,
       old_del_start, new_del_line, in_add, in_del >>

parseVars ==
    << pc, idx, result, calls >>

sortVars ==
    << sorted, add_chunks, del_chunks >>

vcsVars ==
    << helper, got_changed_files, vcs_calls, first_files, last_files, last_cmds >>

getterVars ==
    << getter_calls, last_getter >>

extVars ==
    << repo_base, file_versions, probe, helper_error >>

vars ==
    << hunkVars, regionVars, loopVars, parseVars, sortVars, vcsVars, getterVars,
       extVars >>

----------------------------------------------------------------------------
(* Bounds *)

MaxBody ==
    3

MaxCalls ==
    2

MaxVcsCalls ==
    3

MaxStat ==
    2

MaxSpec ==
    5

MaxGetterCalls ==
    3

----------------------------------------------------------------------------
(* Text helpers *)

StartsWith(line, c) ==
    Len(line) >= 1 /\ line[1] = c

DigitVal(c) ==
    CASE c = "0" -> 0 [] c = "1" -> 1 [] c = "2" -> 2 [] c = "3" -> 3
      [] c = "4" -> 4 [] c = "5" -> 5 [] c = "6" -> 6 [] c = "7" -> 7
      [] c = "8" -> 8 [] c = "9" -> 9

Digits ==
    {"0", "1", "2", "3", "4", "5", "6", "7", "8", "9"}

RECURSIVE IntOf(_)
IntOf(tok) ==
    IF Len(tok) = 0 THEN 0
    ELSE 10 * IntOf(SubSeq(tok, 1, Len(tok) - 1)) + DigitVal(tok[Len(tok)])

----------------------------------------------------------------------------
(* Inputs *)

StartToks ==
    { <<"1">>, <<"1", "0">> }

LenToks ==
    { <<>>, <<"0">>, <<"2">>, <<"3">> }

Matches ==
    [ m0 : StartToks, m1 : LenToks, m2 : StartToks, m3 : LenToks ]

LineAlphabet ==
    { <<" ", "a">>, <<"-", "b">>, <<"+", "c">>, <<"~">>, <<>> }

\* The header and body of the worked MOD example: -1,3 +1,3.
ExampleMatch ==
    [ m0 |-> <<"1">>, m1 |-> <<"3">>, m2 |-> <<"1">>, m3 |-> <<"3">> ]

ExampleBody ==
    << <<" ", "a">>, <<"-", "b">>, <<"+", "c">>, <<" ", "d">> >>

Bodies ==
    UNION { [1..n -> LineAlphabet] : n \in 0..MaxBody } \cup { ExampleBody }

----------------------------------------------------------------------------
(* HunkDiff.__init__ *)

HunkLen(tok) ==
    IF Len(tok) > 0 THEN IntOf(tok) ELSE 1

HunkTypeDelFirst(old_len, new_len) ==
    IF new_len = 0 THEN "DEL"
    ELSE IF old_len = 0 THEN "ADD"
    ELSE "MOD"

HunkType(old_len, new_len) ==
    IF old_len = 0 THEN "ADD"
    ELSE IF new_len = 0 THEN "DEL"
    ELSE "MOD"

DiffRegion(kind, start_line, start_col, end_line, end_col) ==
    [ kind |-> kind, start_line |-> start_line, start_col |-> start_col,
      end_line |-> end_line, end_col |-> end_col ]

HunkInit(ms, bodies) ==
    /\ match \in ms
    /\ hunk_diff_lines \in bodies
    /\ old_line_start = IntOf(match.m0)
    /\ old_hunk_len = HunkLen(match.m1)
    /\ new_line_start = IntOf(match.m2)
    /\ new_hunk_len = HunkLen(match.m3)
    /\ hunk_type = HunkType(old_hunk_len, new_hunk_len)
    /\ old_regions = << >>
    /\ new_regions = << >>
    /\ pc = "idle"
    /\ idx = 0
    /\ result = "none"
    /\ calls = 0
    /\ old_cur_line = 0
    /\ new_cur_line = 0
    /\ old_add_line = 0
    /\ new_add_start = 0
    /\ old_del_start = 0
    /\ new_del_line = 0
    /\ in_add = FALSE
    /\ in_del = FALSE
    /\ sorted = FALSE
    /\ add_chunks = << >>
    /\ del_chunks = << >>
    /\ getter_calls = 0
    /\ last_getter = "none"

----------------------------------------------------------------------------
(* HunkDiff.parse_diff *)

AddHunkOldRegionWide ==
    DiffRegion("DEL", old_line_start, 0, old_line_start + new_hunk_len, 0)

AddHunkOldRegion ==
    DiffRegion("DEL", old_line_start, 0, old_line_start + old_hunk_len, 0)

AddHunkNewRegion ==
    DiffRegion("ADD", new_line_start, 0, new_line_start + new_hunk_len, 0)

DelHunkOldRegion ==
    DiffRegion("ADD", old_line_start, 0, old_line_start + old_hunk_len, 0)

DelHunkNewRegion ==
    DiffRegion("DEL", new_line_start, 0, new_line_start + new_hunk_len, 0)

\* The call of an ADD hunk: both appends, then the return.
ParseDiffAdd ==
    /\ pc = "idle"
    /\ calls < MaxCalls
    /\ hunk_type = "ADD"
    /\ old_regions' = Append(old_regions, AddHunkOldRegion)
    /\ new_regions' = Append(new_regions, AddHunkNewRegion)
    /\ calls' = calls + 1
    /\ result' = "returned"
    /\ UNCHANGED << hunkVars, loopVars, pc, idx, sortVars, vcsVars,
                    getterVars, extVars >>

\* The call of a DEL hunk: both appends, then the return.
ParseDiffDel ==
    /\ pc = "idle"
    /\ calls < MaxCalls
    /\ hunk_type = "DEL"
    /\ old_regions' = Append(old_regions, DelHunkOldRegion)
    /\ new_regions' = Append(new_regions, DelHunkNewRegion)
    /\ calls' = calls + 1
    /\ result' = "returned"
    /\ UNCHANGED << hunkVars, loopVars, pc, idx, sortVars, vcsVars,
                    getterVars, extVars >>

\* The call of a MOD hunk, up to the head of the for loop.
ParseDiffMod ==
    /\ pc = "idle"
    /\ calls < MaxCalls
    /\ hunk_type = "MOD"
    /\ old_cur_line' = old_line_start
    /\ new_cur_line' = new_line_start
    /\ old_add_line' = 0
    /\ new_add_start' = 0
    /\ old_del_start' = 0
    /\ new_del_line' = 0
    /\ in_add' = FALSE
    /\ in_del' = FALSE
    /\ pc' = "loop"
    /\ idx' = 1
    /\ calls' = calls + 1
    /\ result' = "none"
    /\ UNCHANGED << hunkVars, regionVars, sortVars, vcsVars,
                    getterVars, extVars >>

\* The regions a context line appends while closing the open runs:
\* the add run first, then the delete run.
ClosedOldNoMarker(olds) ==
    LET afterAdd == olds
    IN  IF in_del
        THEN Append(afterAdd, DiffRegion("DEL", old_del_start, 0, old_cur_line, 0))
        ELSE afterAdd

ClosedOldWideMarker(olds) ==
    LET afterAdd ==
            IF in_add
            THEN Append(olds, DiffRegion("DEL", old_add_line, 0, old_cur_line, 0))
            ELSE olds
    IN  IF in_del
        THEN Append(afterAdd, DiffRegion("DEL", old_del_start, 0, old_cur_line, 0))
        ELSE afterAdd

ClosedOld(olds) ==
    LET afterAdd ==
            IF in_add
            THEN Append(olds, DiffRegion("DEL", old_add_line, 0, old_add_line, 0))
            ELSE olds
    IN  IF in_del
        THEN Append(afterAdd, DiffRegion("DEL", old_del_start, 0, old_cur_line, 0))
        ELSE afterAdd

ClosedNewDelFirst(news) ==
    LET afterDel ==
            IF in_del
            THEN Append(news, DiffRegion("ADD", new_del_line, 0, new_del_line, 0))
            ELSE news
    IN  IF in_add
        THEN Append(afterDel, DiffRegion("ADD", new_add_start, 0, new_cur_line, 0))
        ELSE afterDel

ClosedNewDelMarker(news) ==
    LET afterAdd ==
            IF in_add
            THEN Append(news, DiffRegion("ADD", new_add_start, 0, new_cur_line, 0))
            ELSE news
    IN  IF in_del
        THEN Append(afterAdd, DiffRegion("DEL", new_del_line, 0, new_del_line, 0))
        ELSE afterAdd

ClosedNew(news) ==
    LET afterAdd ==
            IF in_add
            THEN Append(news, DiffRegion("ADD", new_add_start, 0, new_cur_line, 0))
            ELSE news
    IN  IF in_del
        THEN Append(afterAdd, DiffRegion("ADD", new_del_line, 0, new_del_line, 0))
        ELSE afterAdd

\* "End of that line": the cursor values after a body line.
NextOldCurOwnSide(line) ==
    IF StartsWith(line, "+") THEN old_cur_line ELSE old_cur_line + 1

NextOldCur(line) ==
    old_cur_line + 1

NextNewCurOwnSide(line) ==
    IF StartsWith(line, "-") THEN new_cur_line ELSE new_cur_line + 1

NextNewCur(line) ==
    new_cur_line + 1

CurLine ==
    hunk_diff_lines[idx]

InLoop ==
    pc = "loop" /\ idx <= Len(hunk_diff_lines)

ParseContextLine ==
    /\ InLoop
    /\ StartsWith(CurLine, " ")
    /\ old_regions' = ClosedOld(old_regions)
    /\ new_regions' = ClosedNew(new_regions)
    /\ in_add' = FALSE
    /\ in_del' = FALSE
    /\ old_cur_line' = NextOldCur(CurLine)
    /\ new_cur_line' = NextNewCur(CurLine)
    /\ idx' = idx + 1
    /\ UNCHANGED << hunkVars, old_add_line, new_add_start, old_del_start,
                    new_del_line, pc, result, calls, sortVars, vcsVars,
                    getterVars, extVars >>

ParseAddLineRerecord ==
    /\ InLoop
    /\ StartsWith(CurLine, "+")
    /\ new_add_start' = new_cur_line
    /\ old_add_line' = old_cur_line
    /\ in_add' = TRUE
    /\ old_cur_line' = NextOldCur(CurLine)
    /\ new_cur_line' = NextNewCur(CurLine)
    /\ idx' = idx + 1
    /\ UNCHANGED << hunkVars, regionVars, old_del_start, new_del_line, in_del,
                    pc, result, calls, sortVars, vcsVars,
                    getterVars, extVars >>

ParseAddLine ==
    /\ InLoop
    /\ StartsWith(CurLine, "+")
    /\ IF ~in_add
       THEN /\ new_add_start' = new_cur_line
            /\ old_add_line' = old_cur_line
            /\ in_add' = TRUE
       ELSE UNCHANGED << new_add_start, old_add_line, in_add >>
    /\ old_cur_line' = NextOldCur(CurLine)
    /\ new_cur_line' = NextNewCur(CurLine)
    /\ idx' = idx + 1
    /\ UNCHANGED << hunkVars, regionVars, old_del_start, new_del_line, in_del,
                    pc, result, calls, sortVars, vcsVars,
                    getterVars, extVars >>

ParseDelLine ==
    /\ InLoop
    /\ StartsWith(CurLine, "-")
    /\ IF ~in_del
       THEN /\ new_del_line' = new_cur_line
            /\ old_del_start' = old_cur_line
            /\ in_del' = TRUE
       ELSE UNCHANGED << new_del_line, old_del_start, in_del >>
    /\ old_cur_line' = NextOldCur(CurLine)
    /\ new_cur_line' = NextNewCur(CurLine)
    /\ idx' = idx + 1
    /\ UNCHANGED << hunkVars, regionVars, old_add_line, new_add_start, in_add,
                    pc, result, calls, sortVars, vcsVars,
                    getterVars, extVars >>

Unexpected(line) ==
    ~StartsWith(line, " ") /\ ~StartsWith(line, "+") /\ ~StartsWith(line, "-")

\* The else branch: the format string has two fields and one argument, so
\* str.format raises IndexError and the call ends there.
ParseUnexpectedLine ==
    /\ InLoop
    /\ Unexpected(CurLine)
    /\ pc' = "idle"
    /\ result' = "raised"
    /\ UNCHANGED << hunkVars, regionVars, loopVars, idx, calls, sortVars, vcsVars,
                    getterVars, extVars >>

ParseDiffReturnFlush ==
    /\ pc = "loop"
    /\ idx > Len(hunk_diff_lines)
    /\ pc' = "idle"
    /\ result' = "returned"
    /\ old_regions' = ClosedOld(old_regions)
    /\ new_regions' = ClosedNew(new_regions)
    /\ UNCHANGED << hunkVars, loopVars, idx, calls, sortVars, vcsVars,
                    getterVars, extVars >>

\* The for loop is exhausted: parse_diff returns.
ParseDiffReturn ==
    /\ pc = "loop"
    /\ idx > Len(hunk_diff_lines)
    /\ pc' = "idle"
    /\ result' = "returned"
    /\ UNCHANGED << hunkVars, regionVars, loopVars, idx, calls, sortVars, vcsVars,
                    getterVars, extVars >>

----------------------------------------------------------------------------
(* HunkDiff.get_old_regions / get_new_regions *)

\* self.parse_diff() called from a getter: the call as in ParseDiffAdd,
\* ParseDiffDel and ParseDiffMod.
EnterParseDiff ==
    \/ /\ hunk_type = "ADD"
       /\ old_regions' = Append(old_regions, AddHunkOldRegion)
       /\ new_regions' = Append(new_regions, AddHunkNewRegion)
       /\ calls' = calls + 1
       /\ result' = "returned"
       /\ UNCHANGED << loopVars, pc, idx >>
    \/ /\ hunk_type = "DEL"
       /\ old_regions' = Append(old_regions, DelHunkOldRegion)
       /\ new_regions' = Append(new_regions, DelHunkNewRegion)
       /\ calls' = calls + 1
       /\ result' = "returned"
       /\ UNCHANGED << loopVars, pc, idx >>
    \/ /\ hunk_type = "MOD"
       /\ old_cur_line' = old_line_start
       /\ new_cur_line' = new_line_start
       /\ old_add_line' = 0
       /\ new_add_start' = 0
       /\ old_del_start' = 0
       /\ new_del_line' = 0
       /\ in_add' = FALSE
       /\ in_del' = FALSE
       /\ pc' = "loop"
       /\ idx' = 1
       /\ calls' = calls + 1
       /\ result' = "none"
       /\ UNCHANGED regionVars

GetOldRegions ==
    /\ pc = "idle"
    /\ getter_calls < MaxGetterCalls
    /\ getter_calls' = getter_calls + 1
    /\ last_getter' = "old"
    /\ IF old_regions = << >>
       THEN EnterParseDiff
       ELSE UNCHANGED << regionVars, loopVars, parseVars >>
    /\ UNCHANGED << hunkVars, sortVars, vcsVars, extVars >>

GetNewRegionsUnguarded ==
    /\ pc = "idle"
    /\ getter_calls < MaxGetterCalls
    /\ getter_calls' = getter_calls + 1
    /\ last_getter' = "new"
    /\ EnterParseDiff
    /\ UNCHANGED << hunkVars, sortVars, vcsVars, extVars >>

GetNewRegions ==
    /\ pc = "idle"
    /\ getter_calls < MaxGetterCalls
    /\ getter_calls' = getter_calls + 1
    /\ last_getter' = "new"
    /\ IF new_regions = << >>
       THEN EnterParseDiff
       ELSE UNCHANGED << regionVars, loopVars, parseVars >>
    /\ UNCHANGED << hunkVars, sortVars, vcsVars, extVars >>

----------------------------------------------------------------------------
(* HunkDiff.sort_chunks *)

\* The state of a pass: the groups flushed so far, the current group, the
\* "other kind seen" flag of the pass and need_newline.
ChunkState(chunks, cur, has, nn) ==
    [ chunks |-> chunks, cur_chunk |-> cur, has_other |-> has, need_newline |-> nn ]

AddChunkStep(st, line) ==
    IF StartsWith(line, "~")
    THEN IF st.need_newline \/ ~st.has_other
         THEN ChunkState(Append(st.chunks, st.cur_chunk), << >>, FALSE, FALSE)
         ELSE st
    ELSE IF StartsWith(line, "-")
    THEN [st EXCEPT !.has_other = TRUE]
    ELSE [st EXCEPT !.cur_chunk = Append(@, line),
                    !.need_newline = (@ \/ StartsWith(line, "+"))]

DelChunkStep(st, line) ==
    IF StartsWith(line, "~")
    THEN IF st.need_newline \/ ~st.has_other
         THEN ChunkState(Append(st.chunks, st.cur_chunk), << >>, FALSE, FALSE)
         ELSE st
    ELSE IF StartsWith(line, "+")
    THEN [st EXCEPT !.has_other = TRUE]
    ELSE [st EXCEPT !.cur_chunk = Append(@, line),
                    !.need_newline = (@ \/ StartsWith(line, "-"))]

RECURSIVE AddPass(_, _)
AddPass(lines, st) ==
    IF Len(lines) = 0 THEN st
    ELSE AddPass(Tail(lines), AddChunkStep(st, Head(lines)))

RECURSIVE DelPass(_, _)
DelPass(lines, st) ==
    IF Len(lines) = 0 THEN st
    ELSE DelPass(Tail(lines), DelChunkStep(st, Head(lines)))

\* The value of add_chunks at the return: the groups the '~' lines flushed.
AddChunksFlushAtEnd(st) ==
    Append(st.chunks, st.cur_chunk)

AddChunksOf(st) ==
    st.chunks

DelChunksOf(st) ==
    st.chunks

\* The whole call.  The delete pass starts with a fresh cur_chunk and
\* cur_chunk_has_add = False, and with need_newline as the add pass left it.
SortChunks ==
    /\ pc = "idle"
    /\ ~sorted
    /\ LET addEnd == AddPass(hunk_diff_lines, ChunkState(<< >>, << >>, FALSE, FALSE))
           delEnd == DelPass(hunk_diff_lines,
                             ChunkState(<< >>, << >>, FALSE, addEnd.need_newline))
       IN  /\ add_chunks' = AddChunksOf(addEnd)
           /\ del_chunks' = DelChunksOf(delEnd)
    /\ sorted' = TRUE
    /\ UNCHANGED << hunkVars, regionVars, loopVars, parseVars, vcsVars,
                    getterVars, extVars >>

----------------------------------------------------------------------------
(* GitHelper / SVNHelper: get_changed_files *)

RepoBase ==
    <<"/", "r">>

Whitespace ==
    {" "}

NameChars ==
    {"f", "g", "M", "1", "."}

SvnFlagChars ==
    {"+", "C", "M", "L", "S", "K", "O", "T", "B", " "}

\* The index after the longest run of characters of cs that starts at i.
RECURSIVE SkipSet(_, _, _)
SkipSet(s, i, cs) ==
    IF i <= Len(s) /\ s[i] \in cs THEN SkipSet(s, i + 1, cs) ELSE i

HasPrefix(s, p) ==
    Len(s) >= Len(p) /\ SubSeq(s, 1, Len(p)) = p

\* STAT_CHANGED_FILE.match(line): << >> when there is no match, else <<name>>.
StatChangedFile(line) ==
    LET a == SkipSet(line, 1, Whitespace)
        b == SkipSet(line, a, NameChars)
        c == SkipSet(line, b, Whitespace)
    IN  IF b > a /\ c <= Len(line) /\ line[c] = "|"
        THEN << SubSeq(line, a, b - 1) >>
        ELSE << >>

\* STATUS_CHANGED_FILE.match(line): the flag run is greedy and gives back
\* characters until a name follows it.
StatusChangedFile(line) ==
    LET a == SkipSet(line, 1, Whitespace)
        f == SkipSet(line, a + 1, SvnFlagChars)
        starts == { j \in (a + 1)..f : SkipSet(line, j, NameChars) > j }
        j == CHOOSE k \in starts : \A m \in starts : m <= k
    IN  IF a <= Len(line) /\ line[a] \in {"A", "M"} /\ starts # {}
        THEN << SubSeq(line, j, SkipSet(line, j, NameChars) - 1) >>
        ELSE << >>

\* The end of a match of "-r *\d+" (or "-c *\d+") at the start of s, 0 if none.
FlagNumEnd(s, flag) ==
    IF HasPrefix(s, <<"-", flag>>)
    THEN LET a == SkipSet(s, 3, Whitespace)
             b == SkipSet(s, a, Digits)
         IN  IF b > a THEN b ELSE 0
    ELSE 0

DualRevMatch(s) ==
    LET b == FlagNumEnd(s, "r")
    IN  /\ b # 0
        /\ b <= Len(s)
        /\ s[b] = ":"
        /\ SkipSet(s, b + 1, Digits) > b + 1

RevMatch(s) ==
    FlagNumEnd(s, "r") # 0

CommitMatch(s) ==
    FlagNumEnd(s, "c") # 0

GitDiffArgs ==
    { << >>, <<"A">>, <<"A", ".", ".", "B">>, <<"A", ".", ".", ".", "B">> }

SvnDiffArgs ==
    { << >>, <<"-", "r", "1">>, <<"-", "r", " ", "1", ":", "2">>, <<"-", "c", "2">> }

GitStatLines ==
    { <<" ", "f", " ", "|">>, <<" ", "g", "|">>, <<" ", "1", " ", "f">>, << >> }

SvnStatusLines ==
    { <<"M", " ", "f">>, <<"A", " ", "g">>, <<"?", " ", "f">>, << >> }

DiffTexts ==
    {"t1", "t2"}

Outputs(lineSet) ==
    UNION { [1..n -> lineSet] : n \in 0..MaxStat }

FileDiff(filename, abs_filename, diff_text) ==
    [ filename |-> filename, abs_filename |-> abs_filename, diff_text |-> diff_text ]

PathJoin(base, filename) ==
    base \o <<"/">> \o filename

Command(prog, verb, spec, file) ==
    [ prog |-> prog, verb |-> verb, spec |-> spec, file |-> file ]

\* The loop over the lines of the stat output: the FileDiffs appended.
RECURSIVE GitFiles(_, _)
GitFiles(lines, text) ==
    IF Len(lines) = 0 THEN << >>
    ELSE LET m == StatChangedFile(Head(lines))
         IN  IF m # << >>
             THEN << FileDiff(m[1], PathJoin(repo_base, m[1]), text[m[1]]) >>
                  \o GitFiles(Tail(lines), text)
             ELSE GitFiles(Tail(lines), text)

RECURSIVE GitFileCmds(_, _)
GitFileCmds(lines, diff_args) ==
    IF Len(lines) = 0 THEN << >>
    ELSE LET m == StatChangedFile(Head(lines))
         IN  IF m # << >>
             THEN << Command("git", "diff -U0 --", diff_args, m[1]) >>
                  \o GitFileCmds(Tail(lines), diff_args)
             ELSE GitFileCmds(Tail(lines), diff_args)

RECURSIVE SvnFiles(_, _, _)
SvnFiles(lines, text, dirs) ==
    IF Len(lines) = 0 THEN << >>
    ELSE LET m == StatusChangedFile(Head(lines))
         IN  IF m # << >> /\ m[1] \notin dirs
             THEN << FileDiff(m[1], PathJoin(repo_base, m[1]), text[m[1]]) >>
                  \o SvnFiles(Tail(lines), text, dirs)
             ELSE SvnFiles(Tail(lines), text, dirs)

RECURSIVE SvnFileCmds(_, _, _)
SvnFileCmds(lines, diff_args, dirs) ==
    IF Len(lines) = 0 THEN << >>
    ELSE LET m == StatusChangedFile(Head(lines))
         IN  IF m # << >> /\ m[1] \notin dirs
             THEN << Command("svn", "diff", diff_args, m[1]) >>
                  \o SvnFileCmds(Tail(lines), diff_args, dirs)
             ELSE SvnFileCmds(Tail(lines), diff_args, dirs)

\* The first command of SVNHelper.get_changed_files, by the form of diff_args.
SvnListCommand(diff_args) ==
    IF DualRevMatch(diff_args)
    THEN Command("svn", "diff --summarize", diff_args, << >>)
    ELSE IF RevMatch(diff_args)
    THEN Command("svn", "diff --summarize", diff_args \o <<":", "H", "E", "A", "D">>, << >>)
    ELSE IF CommitMatch(diff_args)
    THEN Command("svn", "diff --summarize", diff_args, << >>)
    ELSE Command("svn", "status", diff_args, << >>)

FileNames ==
    { <<"f">>, <<"g">> }

\* The list a call returns: "files" is local to the call and stays empty
\* when got_changed_files is already set.
ReturnedFiles(got, computed) ==
    IF ~got THEN computed ELSE << >>

RecordNoLatch(files, cmds) ==
    /\ got_changed_files' = got_changed_files
    /\ vcs_calls' = vcs_calls + 1
    /\ last_files' = files
    /\ first_files' = IF vcs_calls = 0 THEN files ELSE first_files
    /\ last_cmds' = cmds
    /\ UNCHANGED << helper, hunkVars, regionVars, loopVars, parseVars, sortVars,
                    getterVars, extVars >>

Record(files, cmds) ==
    /\ got_changed_files' = TRUE
    /\ vcs_calls' = vcs_calls + 1
    /\ last_files' = files
    /\ first_files' = IF vcs_calls = 0 THEN files ELSE first_files
    /\ last_cmds' = cmds
    /\ UNCHANGED << helper, hunkVars, regionVars, loopVars, parseVars, sortVars,
                    getterVars, extVars >>

GitGetChangedFiles ==
    /\ helper = "git"
    /\ vcs_calls < MaxVcsCalls
    /\ \E diff_args \in GitDiffArgs, diff_stat \in Outputs(GitStatLines),
          text \in [FileNames -> DiffTexts] :
          Record(ReturnedFiles(got_changed_files, GitFiles(diff_stat, text)),
                 IF ~got_changed_files
                 THEN << Command("git", "diff --stat", diff_args, << >>) >>
                      \o GitFileCmds(diff_stat, diff_args)
                 ELSE << >>)

SvnGetChangedFiles ==
    /\ helper = "svn"
    /\ vcs_calls < MaxVcsCalls
    /\ \E diff_args \in SvnDiffArgs, status_text \in Outputs(SvnStatusLines),
          text \in [FileNames -> DiffTexts], dirs \in SUBSET FileNames :
          Record(ReturnedFiles(got_changed_files, SvnFiles(status_text, text, dirs)),
                 IF ~got_changed_files
                 THEN << SvnListCommand(diff_args) >>
                      \o SvnFileCmds(status_text, diff_args, dirs)
                 ELSE << >>)

HelperInit(kinds) ==
    /\ helper \in kinds
    /\ got_changed_files = FALSE
    /\ vcs_calls = 0
    /\ first_files = << >>
    /\ last_files = << >>
    /\ last_cmds = << >>

----------------------------------------------------------------------------
(* GitHelper.get_file_versions *)

\* The start of the last occurrence of lit in s, 0 if there is none: where a
\* greedy "(.*)" followed by the literal ends.
LastIndexOf(s, lit) ==
    LET at == { i \in 1..Len(s) : /\ i + Len(lit) - 1 <= Len(s)
                                  /\ SubSeq(s, i, i + Len(lit) - 1) = lit }
    IN  IF at = {} THEN 0 ELSE CHOOSE i \in at : \A j \in at : j <= i

\* re.match of "(.*)<lit>(.*)": << >> if no match, else << group 1, group 2 >>.
SplitAtLast(s, lit) ==
    LET i == LastIndexOf(s, lit)
    IN  IF i = 0 THEN << >>
        ELSE << SubSeq(s, 1, i - 1), SubSeq(s, i + Len(lit), Len(s)) >>

DiffMatchMergeBase(s) ==
    SplitAtLast(s, <<".", ".", ".">>)

DiffMatch(s) ==
    SplitAtLast(s, <<".", ".">>)

Head4 ==
    <<"H", "E", "A", "D">>

\* The call: its commands, the output it read and the pair it returns.
VersionsCall(diff_args, out, cmds, versions) ==
    [ called |-> TRUE, diff_args |-> diff_args, output |-> out, cmds |-> cmds,
      versions |-> versions ]

GitFileVersionsTwoDotFirst(diff_args, out) ==
    LET m2 == DiffMatch(diff_args)
        m3 == DiffMatchMergeBase(diff_args)
    IN  IF m2 # << >>
        THEN VersionsCall(diff_args, << >>, << >>, << m2[1], m2[2] >>)
        ELSE IF m3 # << >>
        THEN VersionsCall(diff_args, out,
                          << Command("git", "merge_base", m3[1], m3[2]) >>,
                          << out, m3[2] >>)
        ELSE IF diff_args # << >>
        THEN VersionsCall(diff_args, << >>, << >>, << diff_args, << >> >>)
        ELSE VersionsCall(diff_args, << >>, << >>, << Head4, << >> >>)

GitFileVersions(diff_args, out) ==
    LET m3 == DiffMatchMergeBase(diff_args)
        m2 == DiffMatch(diff_args)
    IN  IF m3 # << >>
        THEN VersionsCall(diff_args, out,
                          << Command("git", "merge_base", m3[1], m3[2]) >>,
                          << out, m3[2] >>)
        ELSE IF m2 # << >>
        THEN VersionsCall(diff_args, << >>, << >>, << m2[1], m2[2] >>)
        ELSE IF diff_args # << >>
        THEN VersionsCall(diff_args, << >>, << >>, << diff_args, << >> >>)
        ELSE VersionsCall(diff_args, << >>, << >>, << Head4, << >> >>)

SpecChars ==
    {"A", "B", "."}

VersionSpecs ==
    UNION { [1..n -> SpecChars] : n \in 0..MaxSpec }

\* What git prints for the merge base command: nothing, or a commit and a newline.
MergeBaseOutputs ==
    { << >>, <<"c", "\n">> }

GitGetFileVersions ==
    /\ helper = "git"
    /\ \E diff_args \in VersionSpecs, out \in MergeBaseOutputs :
          file_versions' = GitFileVersions(diff_args, out)
    /\ UNCHANGED << hunkVars, regionVars, loopVars, parseVars, sortVars, vcsVars,
                    getterVars, repo_base, probe, helper_error >>

NoVersionsCall ==
    [ called |-> FALSE, diff_args |-> << >>, output |-> << >>, cmds |-> << >>,
      versions |-> << >> ]

----------------------------------------------------------------------------
(* VCSHelper.get_helper *)

\* How a probe (the body of one try block) ends: an exception inside the
\* block (Popen fails, or the output does not decode), text on stderr, or
\* neither.
ProbeOutcomes ==
    {"raises", "stderr", "undecodable", "ok"}

GitRootOutputs ==
    { <<"/", "r", "\n">>, <<"/", "s">> }

RootPathLit ==
    <<"R", "o", "o", "t", " ", "P", "a", "t", "h", ":">>

UrlLine ==
    <<"U", "R", "L", ":", " ", "x", "\n">>

SvnInfoOutputs ==
    { RootPathLit \o <<" ", "/", "r", "\n">>,
      UrlLine \o RootPathLit \o <<" ", "/", "s", "\n">> \o UrlLine,
      UrlLine,
      << >> }

Probes ==
    [ git : ProbeOutcomes, git_out : GitRootOutputs,
      svn : ProbeOutcomes, svn_out : SvnInfoOutputs ]

SpaceChars ==
    {" ", "\n"}

SvnPathChars ==
    {":", "\\", "/", ".", "-", "r", "s", "x"}

\* str.rstrip()
RECURSIVE RStrip(_)
RStrip(s) ==
    IF Len(s) > 0 /\ s[Len(s)] \in SpaceChars
    THEN RStrip(SubSeq(s, 1, Len(s) - 1))
    ELSE s

\* SVN_BASE_MATCH.search(out): << >> if no match, else << group 1 >> of the
\* leftmost match.
SvnBaseMatch(out) ==
    LET at == { i \in 1..Len(out) : /\ i + Len(RootPathLit) - 1 <= Len(out)
                                    /\ SubSeq(out, i, i + Len(RootPathLit) - 1) = RootPathLit }
    IN  IF at = {} THEN << >>
        ELSE LET i == CHOOSE k \in at : \A j \in at : k <= j
                 a == SkipSet(out, i + Len(RootPathLit), SpaceChars)
                 b == SkipSet(out, a, SvnPathChars)
             IN  << SubSeq(out, a, b - 1) >>

HelperResult(kind, base, error) ==
    [ helper |-> kind, base |-> base, error |-> error ]

GetHelperResultSvnFirst(p) ==
    IF p.svn = "ok" /\ SvnBaseMatch(p.svn_out) # << >>
    THEN HelperResult("svn", SvnBaseMatch(p.svn_out)[1], "none")
    ELSE IF p.git = "ok"
    THEN HelperResult("git", RStrip(p.git_out), "none")
    ELSE HelperResult("none", << >>, "NoVCSError")

\* The Git try block, then the SVN try block, then raise NoVCSError.  The
\* bare except clauses swallow whatever a block raises.
GetHelperResult(p) ==
    IF p.git = "ok"
    THEN HelperResult("git", RStrip(p.git_out), "none")
    ELSE IF p.svn = "ok" /\ SvnBaseMatch(p.svn_out) # << >>
    THEN HelperResult("svn", SvnBaseMatch(p.svn_out)[1], "none")
    ELSE HelperResult("none", << >>, "NoVCSError")

GetHelper ==
    /\ helper = "none"
    /\ helper_error = "none"
    /\ LET r == GetHelperResult(probe)
       IN  /\ helper' = r.helper
           /\ repo_base' = r.base
           /\ helper_error' = r.error
    /\ UNCHANGED << hunkVars, regionVars, loopVars, parseVars, sortVars,
                    got_changed_files, vcs_calls, first_files, last_files,
                    last_cmds, getterVars, file_versions, probe >>

\* A helper that get_helper built in a Git (or SVN) working copy at RepoBase.
Constructed ==
    /\ repo_base = RepoBase
    /\ file_versions = NoVersionsCall
    /\ probe \in { q \in Probes : /\ q.git = (IF helper = "git" THEN "ok" ELSE "stderr")
                                    /\ q.git_out = <<"/", "r", "\n">>
                                    /\ q.svn = (IF helper = "svn" THEN "ok" ELSE "stderr")
                                    /\ q.svn_out = RootPathLit \o <<" ", "/", "r", "\n">> }
    /\ helper_error = "none"

----------------------------------------------------------------------------
(* Specifications *)

\* parse_diff on every header and body of the bounds.
Init ==
    HunkInit(Matches, Bodies) /\ HelperInit({"git"}) /\ Constructed

Next ==
    \/ ParseDiffAdd
    \/ ParseDiffDel
    \/ ParseDiffMod
    \/ ParseContextLine
    \/ ParseAddLine
    \/ ParseDelLine
    \/ ParseUnexpectedLine
    \/ ParseDiffReturn

Spec ==
    Init /\ [][Next]_vars

\* sort_chunks on every body of the bounds.
NextSort ==
    SortChunks

SpecSort ==
    Init /\ [][NextSort]_vars

\* The getters, called in any order on hunks of every type and body.
GetterMatches ==
    { m \in Matches : m.m0 = <<"1">> /\ m.m2 = <<"1", "0">> }

InitGetters ==
    HunkInit(GetterMatches, Bodies) /\ HelperInit({"git"}) /\ Constructed

NextGetters ==
    \/ GetOldRegions
    \/ GetNewRegions
    \/ ParseContextLine
    \/ ParseAddLine
    \/ ParseDelLine
    \/ ParseUnexpectedLine
    \/ ParseDiffReturn

SpecGetters ==
    InitGetters /\ [][NextGetters]_vars

\* get_changed_files on a Git and on an SVN helper.
InitVCS ==
    HunkInit({ExampleMatch}, {ExampleBody}) /\ HelperInit({"git", "svn"}) /\ Constructed

NextVCS ==
    \/ GitGetChangedFiles
    \/ SvnGetChangedFiles

SpecVCS ==
    InitVCS /\ [][NextVCS]_vars

\* get_file_versions on a Git helper, on every diff spec of the bounds.
InitVersions ==
    HunkInit({ExampleMatch}, {ExampleBody}) /\ HelperInit({"git"}) /\ Constructed

NextVersions ==
    GitGetFileVersions

SpecVersions ==
    InitVersions /\ [][NextVersions]_vars

\* get_helper in every working directory of the bounds.
InitHelper ==
    /\ HunkInit({ExampleMatch}, {ExampleBody})
    /\ HelperInit({"none"})
    /\ repo_base = << >>
    /\ file_versions = NoVersionsCall
    /\ probe \in Probes
    /\ helper_error = "none"

NextHelper ==
    GetHelper

SpecHelper ==
    InitHelper /\ [][NextHelper]_vars

----------------------------------------------------------------------------
(* Properties *)

\* The number of parse_diff calls that have ended.
Completed ==
    IF pc = "loop" THEN calls - 1 ELSE calls

\* The first parse_diff call on a fresh hunk has returned.
FreshDone ==
    calls = 1 /\ pc = "idle" /\ result = "returned"

Contains(regions, r) ==
    \E i \in DOMAIN regions : regions[i] = r

HasMarkerAt(regions, n) ==
    \E i \in DOMAIN regions :
        /\ regions[i].start_line = n
        /\ regions[i].end_line = n
        /\ regions[i].start_col = 0
        /\ regions[i].end_col = 0

LinesWith(c) ==
    { i \in DOMAIN hunk_diff_lines : StartsWith(hunk_diff_lines[i], c) }

NotDel(line) ==
    ~StartsWith(line, "-")

NotAdd(line) ==
    ~StartsWith(line, "+")

\* C1: parse_diff is idempotent: once a call has ended and both region lists
\* are populated, no further call changes old_regions or new_regions.
C1_ParseDiffIdempotent ==
    [][ (Completed >= 1 /\ old_regions # << >> /\ new_regions # << >>)
        => (old_regions' = old_regions /\ new_regions' = new_regions) ]_vars

\* C2: a DEL hunk parsed once has old_regions = [DEL spanning the old range]
\* and new_regions = [zero-width ADD at new_line_start].
C2_DelHunkRegions ==
    (hunk_type = "DEL" /\ FreshDone)
    => /\ old_regions =
            << DiffRegion("DEL", old_line_start, 0, old_line_start + old_hunk_len, 0) >>
       /\ new_regions = << DiffRegion("ADD", new_line_start, 0, new_line_start, 0) >>

\* C3: an ADD hunk parsed once has new_regions = [ADD spanning the new range]
\* and old_regions = [zero-width DEL at old_line_start], one region each.
C3_AddHunkRegions ==
    (hunk_type = "ADD" /\ FreshDone)
    => /\ new_regions =
            << DiffRegion("ADD", new_line_start, 0, new_line_start + new_hunk_len, 0) >>
       /\ old_regions = << DiffRegion("DEL", old_line_start, 0, old_line_start, 0) >>
       /\ Len(old_regions) = 1
       /\ Len(new_regions) = 1

C3_Witness ==
    /\ hunk_type = "ADD"
    /\ FreshDone
    /\ new_hunk_len > 0
    /\ old_line_start # new_line_start

\* C4: old_regions and new_regions have the same length in every state:
\* initially, after each body line, after any number of parse_diff calls.
C4_EqualLength ==
    Len(old_regions) = Len(new_regions)

C4_Witness ==
    /\ hunk_type = "MOD"
    /\ calls = 2
    /\ pc = "loop"
    /\ Len(old_regions) >= 3

\* The hunk of the example: header -1,3 +1,3, body " a", "-b", "+c", " d".
ExampleParsed ==
    match = ExampleMatch /\ hunk_diff_lines = ExampleBody /\ FreshDone

\* C5 as stated: the example yields a DEL region [2,3) and a marker at 3 on
\* the old side, a marker at 2 and an ADD region [3,4) on the new side.
C5_Original ==
    ExampleParsed
    => /\ Contains(old_regions, DiffRegion("DEL", 2, 0, 3, 0))
       /\ HasMarkerAt(old_regions, 3)
       /\ HasMarkerAt(new_regions, 2)
       /\ Contains(new_regions, DiffRegion("ADD", 3, 0, 4, 0))

\* C5 amended: the DEL region of the example covers [2,4), the old cursor
\* having advanced over the '+' line too; the rest is as stated.
C5_ExampleRegions ==
    ExampleParsed
    => /\ Contains(old_regions, DiffRegion("DEL", 2, 0, 4, 0))
       /\ HasMarkerAt(old_regions, 3)
       /\ HasMarkerAt(new_regions, 2)
       /\ Contains(new_regions, DiffRegion("ADD", 3, 0, 4, 0))
       /\ Len(old_regions) = 2
       /\ Len(new_regions) = 2

C5_Witness ==
    ExampleParsed /\ Len(old_regions) = 2

\* C6: an unexpected body line of a MOD hunk is skipped: the call does not
\* fail, the run flags and run starts are unchanged, both cursors advance by
\* one and the loop goes on to the next line.
C6_UnexpectedLineSkipped ==
    [][ (InLoop /\ Unexpected(CurLine))
        => /\ result' # "raised"
           /\ pc' = "loop"
           /\ idx' = idx + 1
           /\ old_cur_line' = old_cur_line + 1
           /\ new_cur_line' = new_cur_line + 1
           /\ UNCHANGED << in_add, in_del, old_add_line, new_add_start,
                           old_del_start, new_del_line >> ]_vars

\* C7: every get_changed_files call after the first returns the list the
\* first call computed.
C7_Memoized ==
    vcs_calls >= 2 => last_files = first_files

NoTilde ==
    LinesWith("~") = {}

\* C8 as stated: without a '~' line sort_chunks returns one group on each
\* side, the non-'-' lines and the non-'+' lines.
C8_Original ==
    (sorted /\ NoTilde)
    => /\ add_chunks = << SelectSeq(hunk_diff_lines, NotDel) >>
       /\ del_chunks = << SelectSeq(hunk_diff_lines, NotAdd) >>

\* C8 amended: without a '~' line sort_chunks returns no group at all on
\* either side; the lines gathered in cur_chunk are never flushed.
C8_NoSeparatorNoChunk ==
    (sorted /\ NoTilde) => (add_chunks = << >> /\ del_chunks = << >>)

C8_Witness ==
    /\ sorted
    /\ NoTilde
    /\ LinesWith("+") # {}
    /\ LinesWith(" ") # {}
    /\ LinesWith("-") # {}

\* A MOD call that ran its loop to the end of the body.
ModDone ==
    hunk_type = "MOD" /\ pc = "idle" /\ result = "returned" /\ calls >= 1

BodyMatchesLengths ==
    /\ Cardinality(LinesWith(" ")) + Cardinality(LinesWith("-")) = old_hunk_len
    /\ Cardinality(LinesWith(" ")) + Cardinality(LinesWith("+")) = new_hunk_len

\* C9 as stated: when context+removed lines = old_hunk_len and context+added
\* lines = new_hunk_len, the cursors end at start + declared length.
C9_Original ==
    (ModDone /\ BodyMatchesLengths)
    => /\ old_cur_line = old_line_start + old_hunk_len
       /\ new_cur_line = new_line_start + new_hunk_len

\* C9 amended: after the full body each cursor is its start line plus the
\* number of body lines, so it is start + declared length when the number of
\* body lines equals the declared length of that side.
C9_CursorsAfterBody ==
    ModDone
    => /\ old_cur_line = old_line_start + Len(hunk_diff_lines)
       /\ new_cur_line = new_line_start + Len(hunk_diff_lines)
       /\ (Len(hunk_diff_lines) = old_hunk_len
            => old_cur_line = old_line_start + old_hunk_len)
       /\ (Len(hunk_diff_lines) = new_hunk_len
            => new_cur_line = new_line_start + new_hunk_len)

C9_Witness ==
    /\ ModDone
    /\ Len(hunk_diff_lines) = old_hunk_len
    /\ Len(hunk_diff_lines) = new_hunk_len
    /\ LinesWith("+") # {}
    /\ LinesWith("-") # {}

\* C10: an absent length token gives length 1; hunk_type is ADD exactly when
\* old_hunk_len = 0, DEL exactly when old_hunk_len # 0 and new_hunk_len = 0,
\* MOD otherwise; a side whose length is absent never types the hunk.
C10_HunkType ==
    /\ (match.m1 = << >> => old_hunk_len = 1)
    /\ (match.m3 = << >> => new_hunk_len = 1)
    /\ hunk_type \in {"ADD", "DEL", "MOD"}
    /\ (hunk_type = "ADD" <=> old_hunk_len = 0)
    /\ (hunk_type = "DEL" <=> (old_hunk_len # 0 /\ new_hunk_len = 0))
    /\ (hunk_type = "MOD" <=> (old_hunk_len # 0 /\ new_hunk_len # 0))
    /\ (match.m1 = << >> => hunk_type # "ADD")
    /\ (match.m3 = << >> => hunk_type # "DEL")

C10_Witness ==
    /\ match.m1 = << >>
    /\ match.m3 = <<"0">>
    /\ hunk_type = "DEL"
    /\ FreshDone

Names ==
    UNION { [1..n -> {"A", "B"}] : n \in 0..2 }

Dots3 ==
    <<".", ".", ".">>

Dots2 ==
    <<".", ".">>

\* C11: get_file_versions resolves by first match: "A...B" gives the output
\* of the merge base command on A and B, and B; else "A..B" gives (A, B);
\* else a non-empty bare token T gives (T, ""); else "" gives ("HEAD", "").
\* A three-dot spec is never resolved by the two-dot rule.
C11_VersionResolution ==
    file_versions.called
    => \A a \in Names, b \in Names :
          /\ (file_versions.diff_args = a \o Dots3 \o b
                => /\ file_versions.versions = << file_versions.output, b >>
                   /\ file_versions.cmds = << Command("git", "merge_base", a, b) >>)
          /\ (file_versions.diff_args = a \o Dots2 \o b
                => /\ file_versions.versions = << a, b >>
                   /\ file_versions.cmds = << >>)
          /\ ((a # << >> /\ file_versions.diff_args = a)
                => /\ file_versions.versions = << a, << >> >>
                   /\ file_versions.cmds = << >>)
          /\ (file_versions.diff_args = << >>
                => /\ file_versions.versions = << Head4, << >> >>
                   /\ file_versions.cmds = << >>)

C11_Witness ==
    /\ file_versions.called
    /\ file_versions.diff_args = <<"A">> \o Dots3 \o <<"B">>
    /\ file_versions.versions = << <<"c", "\n">>, <<"B">> >>

RootFound(out) ==
    \E i \in 1..Len(out) :
        /\ i + Len(RootPathLit) - 1 <= Len(out)
        /\ SubSeq(out, i, i + Len(RootPathLit) - 1) = RootPathLit

HelperCalled ==
    helper # "none" \/ helper_error # "none"

\* C12: get_helper returns a Git helper whenever the Git probe succeeds, an
\* SVN helper only when the Git probe fails and the SVN probe succeeds with a
\* root found, and otherwise (a raising probe included) raises NoVCSError.
C12_BackendSelection ==
    HelperCalled
    => /\ (probe.git = "ok" => (helper = "git" /\ helper_error = "none"))
       /\ (helper = "svn"
            => (probe.git # "ok" /\ probe.svn = "ok" /\ RootFound(probe.svn_out)))
       /\ ((probe.git # "ok" /\ probe.svn = "ok" /\ RootFound(probe.svn_out))
            => (helper = "svn" /\ helper_error = "none"))
       /\ ((probe.git # "ok" /\ ~(probe.svn = "ok" /\ RootFound(probe.svn_out)))
            => (helper = "none" /\ helper_error = "NoVCSError"))
       /\ helper_error \in {"none", "NoVCSError"}

C12_Witness ==
    /\ helper = "git"
    /\ probe.git = "ok"
    /\ probe.svn = "ok"
    /\ RootFound(probe.svn_out)
    /\ repo_base = <<"/", "r">>

IsReal(r) ==
    r.end_line > r.start_line

IsMarker(r) ==
    r.start_line = r.end_line /\ r.start_col = 0 /\ r.end_col = 0

\* The context lines that close a run of c lines: a c line precedes them
\* with no context line in between.
ClosingLines(c) ==
    { i \in LinesWith(" ") :
        \E j \in LinesWith(c) :
            j < i /\ \A k \in LinesWith(" ") : ~(j < k /\ k < i) }

\* C13: a run still open when the body of a MOD hunk ends emits nothing: the
\* lists hold one pair per run a context line closed, none for an open run,
\* and none at all when the body has no context line.
C13_OpenRunNotFlushed ==
    (ModDone /\ calls = 1)
    => /\ Len(old_regions) = Cardinality(ClosingLines("+")) + Cardinality(ClosingLines("-"))
       /\ Len(new_regions) = Len(old_regions)
       /\ (LinesWith(" ") = {} => (old_regions = << >> /\ new_regions = << >>))
       /\ (in_add => \A i \in DOMAIN new_regions :
                        ~(IsReal(new_regions[i]) /\ new_regions[i].start_line = new_add_start))
       /\ (in_del => \A i \in DOMAIN old_regions :
                        ~(IsReal(old_regions[i]) /\ old_regions[i].start_line = old_del_start))

C13_Witness ==
    /\ ModDone
    /\ calls = 1
    /\ in_add
    /\ Len(old_regions) = 1
    /\ StartsWith(hunk_diff_lines[Len(hunk_diff_lines)], "+")

\* The body index at which the run of c lines open before line idx started.
RunStart(c) ==
    CHOOSE j \in LinesWith(c) :
        /\ j < idx
        /\ \A k \in LinesWith(" ") : ~(j < k /\ k < idx)
        /\ \A m \in LinesWith(c) :
              (m < j => \E k \in LinesWith(" ") : m < k /\ k < j)

\* C14: a run records both cursors when it opens and only then; the context
\* line that closes it appends the real region from the recorded start to
\* the current cursor and the marker at the other recorded cursor.
C14_RunSpans ==
    [][ /\ ((InLoop /\ StartsWith(CurLine, "+") /\ ~in_add)
              => (new_add_start' = new_cur_line /\ old_add_line' = old_cur_line /\ in_add'))
        /\ ((InLoop /\ StartsWith(CurLine, "+") /\ in_add)
              => (UNCHANGED << new_add_start, old_add_line >> /\ in_add'))
        /\ ((InLoop /\ StartsWith(CurLine, "-") /\ ~in_del)
              => (new_del_line' = new_cur_line /\ old_del_start' = old_cur_line /\ in_del'))
        /\ ((InLoop /\ StartsWith(CurLine, "-") /\ in_del)
              => (UNCHANGED << new_del_line, old_del_start >> /\ in_del'))
        /\ ((InLoop /\ StartsWith(CurLine, " ") /\ in_add /\ ~in_del)
              => /\ new_regions' = Append(new_regions,
                        DiffRegion("ADD", new_add_start, 0, new_cur_line, 0))
                 /\ old_regions' = Append(old_regions,
                        DiffRegion("DEL", old_add_line, 0, old_add_line, 0)))
        /\ ((InLoop /\ StartsWith(CurLine, " ") /\ in_del /\ ~in_add)
              => /\ old_regions' = Append(old_regions,
                        DiffRegion("DEL", old_del_start, 0, old_cur_line, 0))
                 /\ new_regions' = Append(new_regions,
                        DiffRegion("ADD", new_del_line, 0, new_del_line, 0)))
        /\ ((pc = "loop" /\ in_add)
              => /\ new_add_start = new_line_start + RunStart("+") - 1
                 /\ old_add_line = old_line_start + RunStart("+") - 1)
        /\ ((pc = "loop" /\ in_del)
              => /\ new_del_line = new_line_start + RunStart("-") - 1
                 /\ old_del_start = old_line_start + RunStart("-") - 1)
      ]_vars

C14_Witness ==
    /\ hunk_type = "MOD"
    /\ calls = 1
    /\ \E i \in DOMAIN new_regions :
          /\ new_regions[i].end_line = new_regions[i].start_line + 2
          /\ IsMarker(old_regions[i])

RegionPairs ==
    \A i \in DOMAIN old_regions :
        \/ (IsReal(old_regions[i]) /\ IsMarker(new_regions[i]))
        \/ (IsReal(new_regions[i]) /\ IsMarker(old_regions[i]))

\* C15 as stated: at every index exactly one of old_regions[i], new_regions[i]
\* is a real span and the other is a zero-width marker.
C15_Original ==
    calls = 1 => RegionPairs

\* C15 amended: the same, for every header that does not declare both
\* lengths as 0 (with -a,0 +b,0 both regions are zero-width).
C15_OneRealOneMarker ==
    (calls = 1 /\ ~(old_hunk_len = 0 /\ new_hunk_len = 0)) => RegionPairs

C15_Witness ==
    /\ hunk_type = "MOD"
    /\ FreshDone
    /\ Len(old_regions) = 2
    /\ IsReal(new_regions[1])
    /\ IsMarker(old_regions[1])
    /\ IsReal(old_regions[2])
    /\ IsMarker(new_regions[2])

\* C16: a context line that closes an add run and a delete run appends the
\* pair of the add run before the pair of the delete run.
C16_AddPairFirst ==
    [][ (InLoop /\ StartsWith(CurLine, " ") /\ in_add /\ in_del)
        => /\ new_regions' = new_regions \o
                << DiffRegion("ADD", new_add_start, 0, new_cur_line, 0),
                   DiffRegion("ADD", new_del_line, 0, new_del_line, 0) >>
           /\ old_regions' = old_regions \o
                << DiffRegion("DEL", old_add_line, 0, old_add_line, 0),
                   DiffRegion("DEL", old_del_start, 0, old_cur_line, 0) >>
      ]_vars

\* Both runs were closed by one line and the delete run had opened first.
C16_Witness ==
    /\ hunk_type = "MOD"
    /\ calls = 1
    /\ \E i \in DOMAIN new_regions :
          /\ i + 1 \in DOMAIN new_regions
          /\ IsReal(new_regions[i])
          /\ IsMarker(new_regions[i + 1])
          /\ new_regions[i + 1].start_line < new_regions[i].start_line
          /\ old_regions[i + 1].end_line = new_regions[i].end_line - new_line_start + old_line_start

\* C19: in a MOD hunk every region of old_regions has kind DEL and every
\* region of new_regions has kind ADD, after any prefix of the body.
C19_KindsBySide ==
    hunk_type = "MOD"
    => /\ \A i \in DOMAIN old_regions : old_regions[i].kind = "DEL"
       /\ \A i \in DOMAIN new_regions : new_regions[i].kind = "ADD"

C19_Witness ==
    /\ hunk_type = "MOD"
    /\ pc = "loop"
    /\ calls = 1
    /\ \E i \in DOMAIN old_regions : IsReal(old_regions[i])
    /\ \E i \in DOMAIN old_regions : IsMarker(old_regions[i])

SwapLine(line) ==
    IF StartsWith(line, "+") THEN <<"-">> \o Tail(line)
    ELSE IF StartsWith(line, "-") THEN <<"+">> \o Tail(line)
    ELSE line

SwapLines(lines) ==
    [ i \in DOMAIN lines |-> SwapLine(lines[i]) ]

SwapChunks(chunks) ==
    [ i \in DOMAIN chunks |-> SwapLines(chunks[i]) ]

\* C17: the delete pass is the mirror image of the add pass and independent
\* of it: del_chunks of a body is add_chunks of the body with '+' and '-'
\* exchanged, with the prefixes exchanged back.
C17_MirrorPasses ==
    sorted
    => del_chunks =
         SwapChunks(AddChunksOf(AddPass(SwapLines(hunk_diff_lines),
                                        ChunkState(<< >>, << >>, FALSE, FALSE))))

OnlyDiffLines ==
    \A i \in DOMAIN hunk_diff_lines : ~Unexpected(hunk_diff_lines[i])

\* C18: through the getters the lists are populated once: for a body of
\* ' ', '+', '-' lines, once the parse_diff call of the first getter has
\* ended no later getter call, old or new, changes old_regions or new_regions.
C18_GettersPopulateOnce ==
    [][ (OnlyDiffLines /\ Completed >= 1)
        => (old_regions' = old_regions /\ new_regions' = new_regions) ]_vars

C18_Witness ==
    /\ OnlyDiffLines
    /\ getter_calls = 3
    /\ last_getter = "new"
    /\ pc = "idle"
    /\ calls = 1
    /\ Len(old_regions) = 2

\* C20: the latch is set by the first get_changed_files call and stays set,
\* and no call after the first issues a backend command.
C20_LatchSetOnce ==
    vcs_calls >= 1
    => /\ got_changed_files
       /\ (vcs_calls >= 2 => last_cmds = << >>)

C20_Witness ==
    /\ vcs_calls = 3
    /\ helper = "svn"
    /\ got_changed_files
    /\ Len(first_files) = 2
    /\ last_cmds = << >>

====
